---- MODULE Spec2Model ----
(***************************************************************************)
(* Model of the BMP280 driver (src/src/lib.rs): the builder, the sensor     *)
(* session, its bus transactions and the fixed-point compensation pipeline. *)
(*                                                                         *)
(* The pipeline works on i32 and i64 values, which exceed the integers of   *)
(* the model checker, so integers are kept as sign + magnitude limbs and    *)
(* narrowed to their Rust width after every operation.                      *)
(***************************************************************************)
EXTENDS Integers, Sequences, FiniteSets, TLC

\* ------------------------------------------------------------------------
\* Exact integers: [neg |-> BOOLEAN, mag |-> little-endian limbs, no
\* trailing zero limb]; zero is [neg |-> FALSE, mag |-> <<>>].
\* ------------------------------------------------------------------------
RECURSIVE Pow2(_)
Pow2(n) == IF n = 0 THEN 1 ELSE 2 * Pow2(n - 1)

LimbBits == 15
Base == Pow2(LimbBits)

RECURSIVE MNorm(_)
MNorm(m) ==
    IF m = <<>> THEN <<>>
    ELSE IF m[Len(m)] = 0 THEN MNorm(SubSeq(m, 1, Len(m) - 1))
    ELSE m

Limb(m, i) == IF i <= Len(m) THEN m[i] ELSE 0

Max(a, b) == IF a >= b THEN a ELSE b

RECURSIVE MAddFrom(_, _, _, _)
MAddFrom(a, b, i, carry) ==
    IF i > Max(Len(a), Len(b))
    THEN (IF carry = 0 THEN <<>> ELSE <<carry>>)
    ELSE LET s == Limb(a, i) + Limb(b, i) + carry
         IN  <<s % Base>> \o MAddFrom(a, b, i + 1, s \div Base)

MAdd(a, b) == MAddFrom(a, b, 1, 0)

\* a - b for a >= b
RECURSIVE MSubFrom(_, _, _, _)
MSubFrom(a, b, i, borrow) ==
    IF i > Len(a) THEN <<>>
    ELSE LET d == Limb(a, i) - Limb(b, i) - borrow
         IN  IF d < 0
             THEN <<d + Base>> \o MSubFrom(a, b, i + 1, 1)
             ELSE <<d>> \o MSubFrom(a, b, i + 1, 0)

MSub(a, b) == MNorm(MSubFrom(a, b, 1, 0))

\* -1, 0, 1 as a is below, equal to, above b
RECURSIVE MCmpFrom(_, _, _)
MCmpFrom(a, b, i) ==
    IF i = 0 THEN 0
    ELSE IF a[i] < b[i] THEN -1
    ELSE IF a[i] > b[i] THEN 1
    ELSE MCmpFrom(a, b, i - 1)

MCmp(a, b) ==
    IF Len(a) < Len(b) THEN -1
    ELSE IF Len(a) > Len(b) THEN 1
    ELSE MCmpFrom(a, b, Len(a))

RECURSIVE MMulLimbFrom(_, _, _, _)
MMulLimbFrom(a, d, i, carry) ==
    IF i > Len(a)
    THEN (IF carry = 0 THEN <<>> ELSE <<carry>>)
    ELSE LET s == a[i] * d + carry
         IN  <<s % Base>> \o MMulLimbFrom(a, d, i + 1, s \div Base)

MMulLimb(a, d) == IF d = 0 THEN <<>> ELSE MMulLimbFrom(a, d, 1, 0)

Zeros(n) == [i \in 1..n |-> 0]

MShlLimbs(a, n) == IF a = <<>> THEN <<>> ELSE Zeros(n) \o a

RECURSIVE MMulFrom(_, _, _)
MMulFrom(a, b, j) ==
    IF j > Len(b) THEN <<>>
    ELSE MAdd(MShlLimbs(MMulLimb(a, b[j]), j - 1), MMulFrom(a, b, j + 1))

MMul(a, b) == MMulFrom(a, b, 1)

MShl(a, n) == MShlLimbs(MMulLimb(a, Pow2(n % LimbBits)), n \div LimbBits)

\* floor(a / 2^n)
MShr(a, n) ==
    LET k == n \div LimbBits
        r == n % LimbBits
        lo == Pow2(r)
        hi == Pow2(LimbBits - r)
    IN  IF k >= Len(a) THEN <<>>
        ELSE MNorm([i \in 1..(Len(a) - k) |->
                      (a[i + k] \div lo) + (Limb(a, i + k + 1) % lo) * hi])

\* a mod 2^n
MLowBits(a, n) ==
    LET k == n \div LimbBits
        r == n % LimbBits
    IN  IF Len(a) <= k THEN a
        ELSE MNorm([i \in 1..(k + 1) |->
                      IF i <= k THEN a[i] ELSE a[i] % Pow2(r)])

RECURSIVE BitLenLimb(_)
BitLenLimb(d) == IF d = 0 THEN 0 ELSE 1 + BitLenLimb(d \div 2)

MBitLen(a) ==
    IF a = <<>> THEN 0
    ELSE (Len(a) - 1) * LimbBits + BitLenLimb(a[Len(a)])

\* the largest d in lo..hi with b * d <= r
RECURSIVE MDigit(_, _, _, _)
MDigit(r, b, lo, hi) ==
    IF lo = hi THEN lo
    ELSE LET mid == (lo + hi + 1) \div 2
         IN  IF MCmp(MMulLimb(b, mid), r) <= 0
             THEN MDigit(r, b, mid, hi)
             ELSE MDigit(r, b, lo, mid - 1)

\* <<quotient, remainder>> of a by b (long division by limbs); a zero b has
\* no quotient and yields <<0, a>>
RECURSIVE MDivMod(_, _)
MDivMod(a, b) ==
    IF b = <<>> \/ MCmp(a, b) < 0 THEN <<(<<>>), a>>
    ELSE LET h == MDivMod(a, MShlLimbs(b, 1))
             d == MDigit(h[2], b, 0, Base - 1)
         IN  <<MNorm(<<d>> \o h[1]), MSub(h[2], MMulLimb(b, d))>>

MFromNat(n) ==
    MNorm(<<n % Base, (n \div Base) % Base, n \div (Base * Base)>>)

Big(neg, mag) == [neg |-> neg /\ mag # <<>>, mag |-> mag]

FromInt(n) == IF n < 0 THEN Big(TRUE, MFromNat(-n)) ELSE Big(FALSE, MFromNat(n))

\* for values that fit 32 bits
ToInt(x) ==
    IF x.neg
    THEN 0 - Limb(x.mag, 1) - Limb(x.mag, 2) * Base - Limb(x.mag, 3) * Base * Base
    ELSE Limb(x.mag, 1) + Limb(x.mag, 2) * Base + Limb(x.mag, 3) * Base * Base

BNeg(x) == Big(~x.neg, x.mag)

BAdd(x, y) ==
    IF x.neg = y.neg THEN Big(x.neg, MAdd(x.mag, y.mag))
    ELSE IF MCmp(x.mag, y.mag) >= 0 THEN Big(x.neg, MSub(x.mag, y.mag))
    ELSE Big(y.neg, MSub(y.mag, x.mag))

BSub(x, y) == BAdd(x, BNeg(y))

BMul(x, y) == Big(x.neg # y.neg, MMul(x.mag, y.mag))

BShl(x, n) == Big(x.neg, MShl(x.mag, n))

\* arithmetic shift right: floor(x / 2^n)
BShr(x, n) ==
    IF x.neg
    THEN Big(TRUE, MShr(MAdd(x.mag, MSub(MShl(<<1>>, n), <<1>>)), n))
    ELSE Big(FALSE, MShr(x.mag, n))

\* Rust's integer division: the quotient truncated toward zero
BDivTrunc(x, y) == Big(x.neg # y.neg, MDivMod(x.mag, y.mag)[1])

BCmp(x, y) ==
    IF x.neg /\ ~y.neg THEN -1
    ELSE IF ~x.neg /\ y.neg THEN 1
    ELSE IF x.neg THEN MCmp(y.mag, x.mag)
    ELSE MCmp(x.mag, y.mag)

IsZero(x) == x.mag = <<>>

\* x fits a signed w-bit integer
InRange(x, w) ==
    \/ MBitLen(x.mag) < w
    \/ x.neg /\ x.mag = MShl(<<1>>, w - 1)

\* x narrowed to a signed w-bit integer (two's complement wrap-around)
Wrap(x, w) ==
    LET low == MLowBits(x.mag, w)
        u == IF x.neg /\ low # <<>> THEN MSub(MShl(<<1>>, w), low) ELSE low
    IN  IF MCmp(u, MShl(<<1>>, w - 1)) >= 0
        THEN Big(TRUE, MSub(MShl(<<1>>, w), u))
        ELSE Big(FALSE, u)

\* ------------------------------------------------------------------------
\* Rust integer arithmetic.  A value carries `o`: some +, - or * on the way
\* to it left the range of its type.  Such an operation panics when the
\* crate is built with overflow checks (the debug profile) and wraps when it
\* is built without them (the release profile).  Shifts and `as` casts never
\* panic; a left shift drops the bits shifted out.
\* ------------------------------------------------------------------------
Val(n) == [v |-> FromInt(n), o |-> FALSE]

Narrow(e, w) == IF InRange(e, w) THEN e ELSE Wrap(e, w)

\* the exact result e as a w-bit value; o: an operand was tainted
Checked(e, w, o) == [v |-> Narrow(e, w), o |-> o \/ ~InRange(e, w)]

CAdd(w, x, y) == Checked(BAdd(x.v, y.v), w, x.o \/ y.o)

CSub(w, x, y) == Checked(BSub(x.v, y.v), w, x.o \/ y.o)

CMul(w, x, y) == Checked(BMul(x.v, y.v), w, x.o \/ y.o)

CShl(w, x, n) == [v |-> Narrow(BShl(x.v, n), w), o |-> x.o]

CShr(x, n) == [v |-> BShr(x.v, n), o |-> x.o]

\* Rust's /, for a divisor that is not 0
CDiv(x, y) == [v |-> BDivTrunc(x.v, y.v), o |-> x.o \/ y.o]

\* ------------------------------------------------------------------------
\* f32: IEEE 754 binary32 with round-to-nearest-even.  A finite value is
\* man * 2^exp with man = 0 or 2^23 <= man < 2^24.  "unk" is a finite result
\* of powf that the model does not determine.  Magnitudes stay far inside
\* the normal range for the operands that occur (2^-18 .. 2^70), so
\* subnormals are not represented.
\* ------------------------------------------------------------------------
FNaN == [k |-> "nan", neg |-> FALSE, man |-> 0, exp |-> 0]

FInf(neg) == [k |-> "inf", neg |-> neg, man |-> 0, exp |-> 0]

FZero(neg) == [k |-> "fin", neg |-> neg, man |-> 0, exp |-> 0]

FUnk == [k |-> "unk", neg |-> FALSE, man |-> 0, exp |-> 0]

FFin(neg, man, exp) ==
    IF exp + 24 > 128 THEN FInf(neg)
    ELSE [k |-> "fin", neg |-> neg, man |-> man, exp |-> exp]

Mantissa == 24
TwoP23 == Pow2(Mantissa - 1)
TwoP24 == Pow2(Mantissa)

\* the f32 nearest to (+/-) (m + fraction) * 2^e, where m is a magnitude and
\* sticky tells a nonzero fraction below m's unit (then m has over 25 bits)
RoundF32(neg, m, e, sticky) ==
    LET bl == MBitLen(m)
    IN  IF bl = 0 THEN FZero(neg)
        ELSE IF bl <= Mantissa
        THEN FFin(neg, ToInt(Big(FALSE, m)) * Pow2(Mantissa - bl), e - (Mantissa - bl))
        ELSE LET sh == bl - Mantissa
                 q == ToInt(Big(FALSE, MShr(m, sh)))
                 c == MCmp(MLowBits(m, sh), MShl(<<1>>, sh - 1))
                 up == c > 0 \/ (c = 0 /\ (sticky \/ q % 2 = 1))
             IN  IF up /\ q + 1 = TwoP24 THEN FFin(neg, TwoP23, e + sh + 1)
                 ELSE FFin(neg, IF up THEN q + 1 ELSE q, e + sh)

\* `x as f32` for an integer x
F32FromBig(x) == RoundF32(x.neg, x.mag, 0, FALSE)

F32FromInt(n) == F32FromBig(FromInt(n))

FIsZero(a) == a.k = "fin" /\ a.man = 0

F32Mul(a, b) ==
    IF a.k = "nan" \/ b.k = "nan" THEN FNaN
    ELSE IF (a.k = "inf" /\ FIsZero(b)) \/ (FIsZero(a) /\ b.k = "inf") THEN FNaN
    ELSE IF FIsZero(a) \/ FIsZero(b) THEN FZero(a.neg # b.neg)
    ELSE IF a.k = "inf" \/ b.k = "inf" THEN FInf(a.neg # b.neg)
    ELSE IF a.k = "unk" \/ b.k = "unk" THEN FUnk
    ELSE RoundF32(a.neg # b.neg, MMul(MFromNat(a.man), MFromNat(b.man)),
                  a.exp + b.exp, FALSE)

QuotBits == Mantissa + 2

F32Div(a, b) ==
    IF a.k = "nan" \/ b.k = "nan" THEN FNaN
    ELSE IF (a.k = "inf" /\ b.k = "inf") \/ (FIsZero(a) /\ FIsZero(b)) THEN FNaN
    ELSE IF a.k = "inf" \/ FIsZero(b) THEN FInf(a.neg # b.neg)
    ELSE IF b.k = "inf" \/ FIsZero(a) THEN FZero(a.neg # b.neg)
    ELSE IF a.k = "unk" \/ b.k = "unk" THEN FUnk
    ELSE LET qr == MDivMod(MShl(MFromNat(a.man), QuotBits), MFromNat(b.man))
         IN  RoundF32(a.neg # b.neg, qr[1], a.exp - b.exp - QuotBits, qr[2] # <<>>)

F32Sub(a, b) ==
    IF a.k = "nan" \/ b.k = "nan" THEN FNaN
    ELSE IF a.k = "inf" /\ b.k = "inf" THEN (IF a.neg = b.neg THEN FNaN ELSE a)
    ELSE IF a.k = "inf" THEN a
    ELSE IF b.k = "inf" THEN FInf(~b.neg)
    ELSE IF a.k = "unk" \/ b.k = "unk" THEN FUnk
    ELSE IF FIsZero(a) /\ FIsZero(b) THEN FZero(a.neg /\ ~b.neg)
    ELSE LET e == IF FIsZero(a) THEN b.exp
                  ELSE IF FIsZero(b) THEN a.exp
                  ELSE IF a.exp <= b.exp THEN a.exp ELSE b.exp
             x == Big(a.neg, MShl(MFromNat(a.man), IF FIsZero(a) THEN 0 ELSE a.exp - e))
             y == Big(b.neg, MShl(MFromNat(b.man), IF FIsZero(b) THEN 0 ELSE b.exp - e))
             d == BSub(x, y)
         IN  RoundF32(d.neg, d.mag, e, FALSE)

FOne == F32FromInt(1)

\* f32::powf(x, 0.1903): the cases IEEE 754 / C99 pow fix exactly; any other
\* finite positive x gives a finite value the model leaves undetermined
Powf01903(x) ==
    IF x.k = "nan" THEN FNaN
    ELSE IF x = FOne THEN FOne
    ELSE IF FIsZero(x) THEN FZero(FALSE)
    ELSE IF x.k = "inf" THEN FInf(FALSE)
    ELSE IF x.k = "unk" THEN FUnk
    ELSE IF x.neg THEN FNaN
    ELSE FUnk

\* ------------------------------------------------------------------------
\* Compensation arithmetic of temperature_celsius and pressure_kpa
\* ------------------------------------------------------------------------
I32 == 32
I64 == 64

\* line 380-382: self.fine = var1 + var2 and the hundredths of a degree
TemperatureFine(fine) ==
    [fine |-> fine, t |-> CShr(CAdd(I32, CMul(I32, fine, Val(5)), Val(128)), 8)]

\* lines 377-378 for the 20-bit sample adc_t
TemperatureVars(adc_t, t1, t2, t3) ==
    TemperatureFine(
        CAdd(I32,
             CShr(CMul(I32, CSub(I32, CShr(adc_t, 3), CShl(I32, t1, 1)), t2), 11),
             CShr(CMul(I32,
                       CShr(CMul(I32, CSub(I32, CShr(adc_t, 4), t1),
                                      CSub(I32, CShr(adc_t, 4), t1)), 12),
                       t3), 14)))

\* variant: the 24-bit register value is used without the shift by 4
TemperatureMathNoShift(cal, raw) ==
    TemperatureVars(Val(raw), Val(cal.dig_t1), Val(cal.dig_t2), Val(cal.dig_t3))

\* lines 370-382: raw is the value read24 returned; the results are
\* self.fine and the temperature in hundredths of a degree
TemperatureMath(cal, raw) ==
    TemperatureVars(CShr(Val(raw), 4), Val(cal.dig_t1), Val(cal.dig_t2), Val(cal.dig_t3))

MinI64 == Big(TRUE, MShl(<<1>>, 63))

\* The result of the pressure arithmetic:
\*   pre    an operation before the var1 == 0 test overflowed
\*   var1   the divisor of line 417
\*   p      the result of line 422 (meaningful when var1 # 0)
\*   divOvf the division of line 417 is i64::MIN / -1
\*   o      an operation overflowed
PressureOut(var2, var1, num, p) ==
    [pre |-> var2.o \/ var1.o, var1 |-> var1.v, p |-> p.v,
     divOvf |-> num.v = MinI64 /\ var1.v = FromInt(-1),
     o |-> var2.o \/ p.o]

\* lines 419-422, p being the quotient of line 417
PressureFinish(cal, var2, var1, num, p) ==
    PressureOut(var2, var1, num,
        CAdd(I64,
             CShr(CAdd(I64,
                       CAdd(I64, p,
                            CShr(CMul(I64, CMul(I64, Val(cal.dig_p9), CShr(p, 13)),
                                      CShr(p, 13)), 25)),
                       CShr(CMul(I64, Val(cal.dig_p8), p), 19)), 8),
             CShl(I64, Val(cal.dig_p7), 4)))

\* line 417
PressureDivide(cal, var2, var1, num) ==
    PressureFinish(cal, var2, var1, num, CDiv(num, var1))

\* lines 416-417: the dividend
PressureDividend(cal, adc_p, var2, var1) ==
    PressureDivide(cal, var2, var1,
        CMul(I64, CSub(I64, CShl(I64, CSub(I64, Val(1048576), adc_p), 31), var2),
             Val(3125)))

\* lines 404-409 for var1 = fine - 128000 and sq = var1 * var1
PressureVars(cal, adc_p, var1, sq) ==
    PressureDividend(cal, adc_p,
        CAdd(I64,
             CAdd(I64, CMul(I64, sq, Val(cal.dig_p6)),
                  CShl(I64, CMul(I64, var1, Val(cal.dig_p5)), 17)),
             CShl(I64, Val(cal.dig_p4), 35)),
        CShr(CMul(I64,
                  CAdd(I64, CShl(I64, Val(1), 47),
                       CAdd(I64, CShr(CMul(I64, sq, Val(cal.dig_p3)), 8),
                            CShl(I64, CMul(I64, var1, Val(cal.dig_p2)), 12))),
                  Val(cal.dig_p1)), 33))

PressureSquare(cal, adc_p, var1) ==
    PressureVars(cal, adc_p, var1, CMul(I64, var1, var1))

\* lines 390-422: fine is self.fine, raw the value read24 returned
PressureMath(cal, fine, raw) ==
    PressureSquare(cal, CShr(Val(raw), 4), CSub(I64, Val(fine), Val(128000)))

\* ------------------------------------------------------------------------
\* Register map (impl From<&Register> for u8)
\* ------------------------------------------------------------------------
Reg ==
    [DigT1 |-> 136, DigT2 |-> 138, DigT3 |-> 140,
     DigP1 |-> 142, DigP2 |-> 144, DigP3 |-> 146, DigP4 |-> 148, DigP5 |-> 150,
     DigP6 |-> 152, DigP7 |-> 154, DigP8 |-> 156, DigP9 |-> 158,
     ChipId |-> 208, Version |-> 209, SoftReset |-> 224, Cal26 |-> 225,
     Control |-> 244, Config |-> 245, PressureData |-> 247, TemperatureData |-> 250]

\* the calibration fields in the order read_coefficients fills them
CalFields ==
    << [name |-> "dig_t1", reg |-> Reg.DigT1, signed |-> FALSE],
       [name |-> "dig_t2", reg |-> Reg.DigT2, signed |-> TRUE],
       [name |-> "dig_t3", reg |-> Reg.DigT3, signed |-> TRUE],
       [name |-> "dig_p1", reg |-> Reg.DigP1, signed |-> FALSE],
       [name |-> "dig_p2", reg |-> Reg.DigP2, signed |-> TRUE],
       [name |-> "dig_p3", reg |-> Reg.DigP3, signed |-> TRUE],
       [name |-> "dig_p4", reg |-> Reg.DigP4, signed |-> TRUE],
       [name |-> "dig_p5", reg |-> Reg.DigP5, signed |-> TRUE],
       [name |-> "dig_p6", reg |-> Reg.DigP6, signed |-> TRUE],
       [name |-> "dig_p7", reg |-> Reg.DigP7, signed |-> TRUE],
       [name |-> "dig_p8", reg |-> Reg.DigP8, signed |-> TRUE],
       [name |-> "dig_p9", reg |-> Reg.DigP9, signed |-> TRUE] >>

\* Calibration::default(): every field zero
CalibrationDefault ==
    [dig_t1 |-> 0, dig_t2 |-> 0, dig_t3 |-> 0,
     dig_p1 |-> 0, dig_p2 |-> 0, dig_p3 |-> 0, dig_p4 |-> 0, dig_p5 |-> 0,
     dig_p6 |-> 0, dig_p7 |-> 0, dig_p8 |-> 0, dig_p9 |-> 0]

\* ------------------------------------------------------------------------
\* The device on the bus.  dev = [chip_id, words]: the identity byte and the
\* factory calibration words; m = [t, p]: the 20-bit samples the sensor holds
\* while a call runs.  Words are stored little-endian, samples big-endian in
\* the upper 20 bits of three bytes.
\* ------------------------------------------------------------------------
U16(n) == IF n < 0 THEN n + 65536 ELSE n

MemByte(dev, m, a) ==
    IF a >= Reg.DigT1 /\ a <= Reg.DigP9 + 1
    THEN LET f == CalFields[((a - Reg.DigT1) \div 2) + 1]
             u == U16(dev.words[f.name])
         IN  IF a % 2 = 0 THEN u % 256 ELSE u \div 256
    ELSE IF a = Reg.ChipId THEN dev.chip_id
    ELSE IF a = Reg.PressureData THEN m.p \div 4096
    ELSE IF a = Reg.PressureData + 1 THEN (m.p \div 16) % 256
    ELSE IF a = Reg.PressureData + 2 THEN (m.p % 16) * 16
    ELSE IF a = Reg.TemperatureData THEN m.t \div 4096
    ELSE IF a = Reg.TemperatureData + 1 THEN (m.t \div 16) % 256
    ELSE IF a = Reg.TemperatureData + 2 THEN (m.t % 16) * 16
    ELSE 0

\* ------------------------------------------------------------------------
\* A call in progress: s = [cal, fine, gp, trace, comp] are the sensor's
\* fields, the bus transactions the call has issued so far and a record of
\* the pressure compensation it ran; e = [dev, m, failAt, checks] is its
\* environment: the device, the samples, which bus transaction fails (0:
\* none) and whether the build panics on integer overflow.
\* A result is [ok, err, val, s].
\* ------------------------------------------------------------------------
Ok(val, s) == [ok |-> TRUE, err |-> "none", val |-> val, s |-> s]

Err(err, s) == [ok |-> FALSE, err |-> err, val |-> 0, s |-> s]

Issue(s, op, bytes, ok) ==
    [s EXCEPT !.trace = Append(@, [op |-> op, bytes |-> bytes, ok |-> ok])]

Fails(s, e) == Len(s.trace) + 1 = e.failAt

\* LinuxI2CDevice::new
I2cOpen(s, e) ==
    IF Fails(s, e) THEN Err("I2cError", Issue(s, "open", <<>>, FALSE))
    ELSE Ok(0, Issue(s, "open", <<>>, TRUE))

\* self.i2c_device.write(bytes)
I2cWrite(s, e, bytes) ==
    IF Fails(s, e) THEN Err("I2cError", Issue(s, "write", bytes, FALSE))
    ELSE Ok(0, Issue(s, "write", bytes, TRUE))

\* self.i2c_device.read(buf) with an n-byte buffer: the device answers from
\* the register the last write addressed
I2cRead(s, e, n) ==
    IF Fails(s, e) THEN Err("I2cError", Issue(s, "read", <<>>, FALSE))
    ELSE LET ptr == s.trace[Len(s.trace)].bytes[1]
             buf == [i \in 1..n |-> MemByte(e.dev, e.m, ptr + i - 1)]
         IN  Ok(buf, Issue(s, "read", buf, TRUE))

\* the data read that follows the address write w
ThenRead(w, e, n) == IF ~w.ok THEN w ELSE I2cRead(w.s, e, n)

\* variant: the result of the address write is not looked at
ReadBytesIgnoreWriteError(s, e, reg, n) ==
    I2cRead(I2cWrite(s, e, <<reg>>).s, e, n)

ReadBytes(s, e, reg, n) == ThenRead(I2cWrite(s, e, <<reg>>), e, n)

Write8(s, e, reg, value) == I2cWrite(s, e, <<reg, value>>)

AsU8(r) == IF ~r.ok THEN r ELSE Ok(r.val[1], r.s)

Read8(s, e, reg) == AsU8(ReadBytes(s, e, reg, 1))

AsU16le(r) == IF ~r.ok THEN r ELSE Ok(r.val[1] + 256 * r.val[2], r.s)

Read16le(s, e, reg) == AsU16le(ReadBytes(s, e, reg, 2))

AsI16(r) ==
    IF ~r.ok THEN r
    ELSE Ok(IF r.val >= 32768 THEN r.val - 65536 ELSE r.val, r.s)

Read16les(s, e, reg) == AsI16(Read16le(s, e, reg))

AsU24be(r) ==
    IF ~r.ok THEN r
    ELSE Ok(r.val[1] * 65536 + r.val[2] * 256 + r.val[3], r.s)

Read24(s, e, reg) == AsU24be(ReadBytes(s, e, reg, 3))

ReadField(s, e, f) ==
    IF f.signed THEN Read16les(s, e, f.reg) ELSE Read16le(s, e, f.reg)

RECURSIVE ReadCoefficientsFrom(_, _, _)
RECURSIVE StoreCoefficient(_, _, _)

\* self.calibration.<field i> = try!(...), then the fields after it
StoreCoefficient(r, e, i) ==
    IF ~r.ok THEN r
    ELSE ReadCoefficientsFrom([r.s EXCEPT !.cal[CalFields[i].name] = r.val], e, i + 1)

ReadCoefficientsFrom(s, e, i) ==
    IF i > Len(CalFields) THEN Ok(0, s)
    ELSE StoreCoefficient(ReadField(s, e, CalFields[i]), e, i)

ReadCoefficients(s, e) == ReadCoefficientsFrom(s, e, 1)

ChipIdExpected == 88
ControlValue == 63

\* line 347, rc being the result of read_coefficients
BeginControl(rc, e) ==
    IF ~rc.ok THEN rc ELSE Write8(rc.s, e, Reg.Control, ControlValue)

\* variant: Control is written before the calibration is loaded
BeginLoadControlFirst(id, e) ==
    IF ~id.ok THEN id
    ELSE IF id.val # ChipIdExpected THEN Err("Other", id.s)
    ELSE IF ~Write8(id.s, e, Reg.Control, ControlValue).ok
         THEN Write8(id.s, e, Reg.Control, ControlValue)
    ELSE ReadCoefficients(Write8(id.s, e, Reg.Control, ControlValue).s, e)

\* variant: the identity byte is read but not compared
BeginLoadNoIdCheck(id, e) ==
    IF ~id.ok THEN id
    ELSE BeginControl(ReadCoefficients(id.s, e), e)

\* lines 342-347, id being the result of read8(ChipId)
BeginLoad(id, e) ==
    IF ~id.ok THEN id
    ELSE IF id.val # ChipIdExpected THEN Err("Other", id.s)
    ELSE BeginControl(ReadCoefficients(id.s, e), e)

Begin(s, e) == BeginLoad(Read8(s, e, Reg.ChipId), e)

F100 == F32FromInt(100)
F1000 == F32FromInt(1000)
F256000 == F32FromInt(256000)
F44330 == F32FromInt(44330)

\* lines 380-383, tm being the arithmetic of lines 371-382
TemperatureResult(s, e, tm) ==
    IF e.checks /\ tm.t.o THEN Err("panic", s)
    ELSE Ok(F32Div(F32FromBig(tm.t.v), F100), [s EXCEPT !.fine = ToInt(tm.fine.v)])

\* lines 371-383, r being the result of read24(TemperatureData)
CompensateTemperature(r, e) ==
    IF ~r.ok THEN r
    ELSE TemperatureResult(r.s, e, TemperatureMath(r.s.cal, r.val))

\* variant: the calibration is loaded again before every temperature read
TemperatureCelsiusReload(s, e) ==
    CompensateTemperature(
        IF ~ReadCoefficients(s, e).ok THEN ReadCoefficients(s, e)
        ELSE Read24(ReadCoefficients(s, e).s, e, Reg.TemperatureData), e)

TemperatureCelsius(s, e) ==
    CompensateTemperature(Read24(s, e, Reg.TemperatureData), e)

NoComp == [ran |-> FALSE, fine |-> 0, raw |-> 0, divided |-> FALSE, divisorZero |-> FALSE]

\* the record of a pressure compensation on sample raw with self.fine
Comp(s, raw, pm, divided) ==
    [s EXCEPT !.comp = [ran |-> TRUE, fine |-> s.fine, raw |-> raw,
                        divided |-> divided, divisorZero |-> IsZero(pm.var1)]]

\* variant: var1 is not tested before the division
PressureResultNoZeroTest(s, e, raw, pm) ==
    IF e.checks /\ pm.pre THEN Err("panic", Comp(s, raw, pm, FALSE))
    ELSE IF IsZero(pm.var1) THEN Err("panic", Comp(s, raw, pm, TRUE))
    ELSE IF pm.divOvf THEN Err("panic", Comp(s, raw, pm, TRUE))
    ELSE IF e.checks /\ pm.o THEN Err("panic", Comp(s, raw, pm, TRUE))
    ELSE Ok(F32Div(F32FromBig(pm.p), F256000), Comp(s, raw, pm, TRUE))

\* lines 402-424, pm being their arithmetic
PressureResult(s, e, raw, pm) ==
    IF e.checks /\ pm.pre THEN Err("panic", Comp(s, raw, pm, FALSE))
    ELSE IF IsZero(pm.var1) THEN Err("Other", Comp(s, raw, pm, FALSE))
    ELSE IF pm.divOvf THEN Err("panic", Comp(s, raw, pm, TRUE))
    ELSE IF e.checks /\ pm.o THEN Err("panic", Comp(s, raw, pm, TRUE))
    ELSE Ok(F32Div(F32FromBig(pm.p), F256000), Comp(s, raw, pm, TRUE))

\* lines 390-424, r being the result of read24(PressureData)
CompensatePressure(r, e) ==
    IF ~r.ok THEN r
    ELSE PressureResult(r.s, e, r.val, PressureMath(r.s.cal, r.s.fine, r.val))

\* lines 388-390, t being the result of temperature_celsius()
PressureAfterTemperature(t, e) ==
    IF ~t.ok THEN t
    ELSE CompensatePressure(Read24(t.s, e, Reg.PressureData), e)

\* variant: no temperature read; the pressure path uses the stored fine
PressureKpaStaleFine(s, e) ==
    CompensatePressure(Read24(s, e, Reg.PressureData), e)

PressureKpa(s, e) == PressureAfterTemperature(TemperatureCelsius(s, e), e)

SetGroundPressure(s, g) == Ok(g, [s EXCEPT !.gp = g])

\* variant: the baseline is stored in kPa, without the factor 1000
StoreBaselineNoScale(r) ==
    IF ~r.ok THEN r ELSE SetGroundPressure(r.s, r.val)

\* lines 228-230, r being the result of pressure_kpa()
StoreBaseline(r) ==
    IF ~r.ok THEN r ELSE SetGroundPressure(r.s, F32Mul(r.val, F1000))

Zero(s, e) == StoreBaseline(PressureKpa(s, e))

\* lines 354-357, r being the result of pressure_kpa()
AltitudeOf(r, sea_level_pa) ==
    IF ~r.ok THEN r
    ELSE Ok(F32Mul(F44330,
                   F32Sub(FOne,
                          Powf01903(F32Div(F32Mul(r.val, F1000), sea_level_pa)))),
            r.s)

AltitudeMRelative(s, e, sea_level_pa) == AltitudeOf(PressureKpa(s, e), sea_level_pa)

\* variant: the altitude is taken relative to the standard sea level
AltitudeMSeaLevel(s, e) == AltitudeMRelative(s, e, F32FromInt(101325))

AltitudeM(s, e) == AltitudeMRelative(s, e, s.gp)

NoVal == FZero(FALSE)

\* line 215, z being the result of zero()
BuildSensor(z) == IF ~z.ok THEN z ELSE Ok(NoVal, z.s)

\* lines 211-215, b being the result of begin()
BuildZero(b, bgp, e) ==
    IF ~b.ok THEN b
    ELSE IF ~FIsZero(bgp) THEN BuildSensor(Zero(b.s, e))
    ELSE Ok(NoVal, b.s)

\* lines 201-215, d being the result of LinuxI2CDevice::new
BuildBegin(d, bgp, e) ==
    IF ~d.ok THEN d ELSE BuildZero(Begin(d.s, e), bgp, e)

\* Bmp280Builder::build for a builder whose ground_pressure field is bgp
Build(bgp, e) ==
    BuildBegin(I2cOpen([cal |-> CalibrationDefault, fine |-> 0, gp |-> bgp,
                        trace |-> <<>>, comp |-> NoComp], e),
               bgp, e)

\* ------------------------------------------------------------------------
\* The program: one builder, the session it builds, and the caller's calls
\* ------------------------------------------------------------------------
VARIABLES
    phase,            \* "builder": build() not called yet; "ready": build()
                      \* returned a session; "failed": build() returned an
                      \* error; "panicked": a call panicked
    builder_gp,       \* Bmp280Builder.ground_pressure
    dev,              \* the device on the bus
    overflow_checks,  \* the build profile panics on integer overflow
    calibration,      \* Bmp280.calibration   } of the sensor build() makes
    fine,             \* Bmp280.fine          } (line 201); it is dropped
    ground_pressure,  \* Bmp280.ground_pressure } when build() fails
    last,             \* the latest call: its result, bus transactions, ...
    prev_zero         \* the data the call before it read, when that call
                      \* was a zero() that succeeded; <<>> otherwise

vars == <<phase, builder_gp, dev, overflow_checks, calibration, fine,
          ground_pressure, last, prev_zero>>

\* the worked example of the sensor's data sheet
Datasheet ==
    [dig_t1 |-> 27504, dig_t2 |-> 26435, dig_t3 |-> -1000,
     dig_p1 |-> 36477, dig_p2 |-> -10685, dig_p3 |-> 3024, dig_p4 |-> 2855,
     dig_p5 |-> 140, dig_p6 |-> -7, dig_p7 |-> 15500, dig_p8 |-> -14600,
     dig_p9 |-> 6000]

P1Zero == [Datasheet EXCEPT !.dig_p1 = 0]

Devices ==
    { [chip_id |-> 88, words |-> Datasheet],
      [chip_id |-> 88, words |-> P1Zero],
      [chip_id |-> 96, words |-> Datasheet] }

\* raw samples: the data sheet's, and a pair whose compensated pressure is
\* exactly 0 under the data sheet's calibration
Samples == { [t |-> 519888, p |-> 415148], [t |-> 23280, p |-> 1019568] }

F101325 == F32FromInt(101325)

BuilderPressures == { F101325 }

SeaLevels == { F101325 }

\* which bus transaction of a call fails: 0..MaxFailAt, 0 for none
MaxFailAt == 32
MaxFailAtRead == 4

NoCall ==
    [op |-> "none", arg |-> NoVal, ok |-> TRUE, err |-> "none", val |-> NoVal,
     trace |-> <<>>, comp |-> NoComp]

IsDataRead(x) == x.op = "read" /\ x.ok

\* the data a call read from the bus, in order
Reads(trace) ==
    LET d == SelectSeq(trace, IsDataRead)
    IN  [i \in 1..Len(d) |-> d[i].bytes]

Init ==
    /\ phase = "builder"
    /\ builder_gp = FZero(FALSE)
    /\ dev \in Devices
    /\ overflow_checks \in BOOLEAN
    /\ calibration = CalibrationDefault
    /\ fine = 0
    /\ ground_pressure = FZero(FALSE)
    /\ last = NoCall
    /\ prev_zero = <<>>

Env(m, failAt) ==
    [dev |-> dev, m |-> m, failAt |-> failAt, checks |-> overflow_checks]

\* the sensor's fields at the start of a call
Self == [cal |-> calibration, fine |-> fine, gp |-> ground_pressure,
         trace |-> <<>>, comp |-> NoComp]

Record(op, arg, r) ==
    /\ last' = [op |-> op, arg |-> arg, ok |-> r.ok, err |-> r.err,
                val |-> IF r.ok THEN r.val ELSE NoVal,
                trace |-> r.s.trace, comp |-> r.s.comp]
    /\ prev_zero' = IF last.op = "zero" /\ last.ok THEN Reads(last.trace) ELSE <<>>

\* a call on the session returned r
Return(op, arg, r) ==
    /\ phase' = IF r.err = "panic" THEN "panicked" ELSE phase
    /\ calibration' = r.s.cal
    /\ fine' = r.s.fine
    /\ ground_pressure' = r.s.gp
    /\ Record(op, arg, r)
    /\ UNCHANGED <<builder_gp, dev, overflow_checks>>

\* Bmp280Builder::ground_pressure
GroundPressureAct(pressure) ==
    /\ phase = "builder"
    /\ builder_gp # pressure
    /\ builder_gp' = pressure
    /\ UNCHANGED <<phase, dev, overflow_checks, calibration, fine,
                   ground_pressure, last, prev_zero>>

\* Bmp280Builder::build: the caller gets the sensor only from Ok(sensor)
\* build() returned r
BuildReturn(r) ==
    /\ phase' = IF r.ok THEN "ready"
                ELSE IF r.err = "panic" THEN "panicked" ELSE "failed"
    /\ calibration' = r.s.cal
    /\ fine' = r.s.fine
    /\ ground_pressure' = r.s.gp
    /\ Record("build", builder_gp, r)
    /\ UNCHANGED <<builder_gp, dev, overflow_checks>>

BuildAct ==
    /\ phase = "builder"
    /\ \E m \in Samples, failAt \in 0..MaxFailAt :
         BuildReturn(Build(builder_gp, Env(m, failAt)))

ZeroAct ==
    /\ phase = "ready"
    /\ \E m \in Samples, failAt \in 0..MaxFailAtRead :
         Return("zero", NoVal, Zero(Self, Env(m, failAt)))

TemperatureCelsiusAct ==
    /\ phase = "ready"
    /\ \E m \in Samples, failAt \in 0..MaxFailAtRead :
         Return("temperature_celsius", NoVal, TemperatureCelsius(Self, Env(m, failAt)))

PressureKpaAct ==
    /\ phase = "ready"
    /\ \E m \in Samples, failAt \in 0..MaxFailAtRead :
         Return("pressure_kpa", NoVal, PressureKpa(Self, Env(m, failAt)))

AltitudeMAct ==
    /\ phase = "ready"
    /\ \E m \in Samples, failAt \in 0..MaxFailAtRead :
         Return("altitude_m", ground_pressure, AltitudeM(Self, Env(m, failAt)))

AltitudeMRelativeAct ==
    /\ phase = "ready"
    /\ \E m \in Samples, failAt \in 0..MaxFailAtRead, sea \in SeaLevels :
         Return("altitude_m_relative", sea, AltitudeMRelative(Self, Env(m, failAt), sea))

Next ==
    \/ \E pressure \in BuilderPressures : GroundPressureAct(pressure)
    \/ BuildAct
    \/ ZeroAct
    \/ TemperatureCelsiusAct
    \/ PressureKpaAct
    \/ AltitudeMAct
    \/ AltitudeMRelativeAct

Spec == Init /\ [][Next]_vars

\* ------------------------------------------------------------------------
\* The compensation on the whole range of its inputs: calibration words and
\* samples at the ends of their ranges, on a bus that does not fail
\* ------------------------------------------------------------------------
AllWords(t1, t2, t3, p1, rest) ==
    [dig_t1 |-> t1, dig_t2 |-> t2, dig_t3 |-> t3,
     dig_p1 |-> p1, dig_p2 |-> rest, dig_p3 |-> rest, dig_p4 |-> rest,
     dig_p5 |-> rest, dig_p6 |-> rest, dig_p7 |-> rest, dig_p8 |-> rest,
     dig_p9 |-> rest]

WordsWide ==
    { Datasheet,
      P1Zero,
      AllWords(65535, 32767, 32767, 0, 32767),
      AllWords(0, -32768, -32768, 0, -32768),
      AllWords(65535, -32768, 32767, 0, -1),
      AllWords(65535, 32767, 32767, 65535, 32767),
      [P1Zero EXCEPT !.dig_p3 = 32767, !.dig_p2 = -32768, !.dig_p6 = -32768] }

DevicesWide == { [chip_id |-> 88, words |-> w] : w \in WordsWide }

SamplesWide ==
    { [t |-> t, p |-> q] : t \in {0, 519888, 1048575}, q \in {0, 415148, 1048575} }

InitWide ==
    /\ phase = "builder"
    /\ builder_gp = FZero(FALSE)
    /\ dev \in DevicesWide
    /\ overflow_checks \in BOOLEAN
    /\ calibration = CalibrationDefault
    /\ fine = 0
    /\ ground_pressure = FZero(FALSE)
    /\ last = NoCall
    /\ prev_zero = <<>>

BuildWideAct ==
    /\ phase = "builder"
    /\ \E m \in SamplesWide :
         BuildReturn(Build(builder_gp, Env(m, 0)))

TemperatureCelsiusWideAct ==
    /\ phase = "ready"
    /\ \E m \in SamplesWide :
         Return("temperature_celsius", NoVal, TemperatureCelsius(Self, Env(m, 0)))

PressureKpaWideAct ==
    /\ phase = "ready"
    /\ \E m \in SamplesWide :
         Return("pressure_kpa", NoVal, PressureKpa(Self, Env(m, 0)))

NextWide ==
    \/ BuildWideAct
    \/ TemperatureCelsiusWideAct
    \/ PressureKpaWideAct

SpecWide == InitWide /\ [][NextWide]_vars

\* ------------------------------------------------------------------------
\* Properties
\* ------------------------------------------------------------------------
Addr(x) == x.bytes[1]

IsWriteTo(x, reg) == x.op = "write" /\ Addr(x) = reg

WritesTo(trace, reg) == { i \in 1..Len(trace) : IsWriteTo(trace[i], reg) }

\* the value of three big-endian bytes
BE24(b) == b[1] * 65536 + b[2] * 256 + b[3]

IsCalReg(a) == a >= Reg.DigT1 /\ a <= Reg.DigP9 + 1

\* C1: a call that reads PressureData (0xF7) has issued exactly one
\* TemperatureData (0xFA) read, right before it, and the pressure
\* compensation of that call uses the fine value computed from the sample
\* that read returned.
C1_TemperatureBeforePressure ==
    \A i \in WritesTo(last.trace, Reg.PressureData) :
        /\ i >= 3
        /\ IsWriteTo(last.trace[i - 2], Reg.TemperatureData)
        /\ last.trace[i - 2].ok
        /\ IsDataRead(last.trace[i - 1])
        /\ Cardinality(WritesTo(last.trace, Reg.TemperatureData)) = 1
        /\ Cardinality(WritesTo(last.trace, Reg.PressureData)) = 1
        /\ last.comp.ran =>
             last.comp.fine =
               ToInt(TemperatureMath(calibration, BE24(last.trace[i - 1].bytes)).fine.v)

C1_Witness ==
    /\ last.op = "pressure_kpa"
    /\ last.ok
    /\ last.comp.ran
    /\ prev_zero # <<>>
    /\ prev_zero[1] # Reads(last.trace)[1]

ChipIdRead(trace) ==
    \E i \in 2..Len(trace) :
        IsWriteTo(trace[i - 1], Reg.ChipId) /\ IsDataRead(trace[i])

\* C2: with a ChipId byte other than 0x58, build() returns an error, the
\* caller never gets a session (no read operation ever runs), and build()
\* reads no calibration register and does not write the Control register.
C2_IdentityMismatch ==
    dev.chip_id # ChipIdExpected =>
        /\ phase \in {"builder", "failed"}
        /\ last.op \in {"none", "build"}
        /\ ~last.ok \/ last.op = "none"
        /\ ChipIdRead(last.trace) => last.err = "Other"
        /\ \A i \in 1..Len(last.trace) :
               last.trace[i].op = "write" =>
                   ~IsCalReg(Addr(last.trace[i])) /\ Addr(last.trace[i]) # Reg.Control

C2_Witness ==
    /\ dev.chip_id # ChipIdExpected
    /\ last.op = "build"
    /\ ChipIdRead(last.trace)
    /\ last.err = "Other"
    /\ phase = "failed"

InitLen == 1 + 2 + 2 * Len(CalFields) + 1

\* the transaction at place i of a successful initialization, data aside
InitShape(i) ==
    IF i = 1 THEN [op |-> "open", bytes |-> <<>>]
    ELSE IF i = 2 THEN [op |-> "write", bytes |-> <<208>>]
    ELSE IF i = 3 THEN [op |-> "read", bytes |-> <<0>>]
    ELSE IF i = InitLen THEN [op |-> "write", bytes |-> <<244, 63>>]
    ELSE IF i % 2 = 0 THEN [op |-> "write", bytes |-> <<136 + (i - 4)>>]
    ELSE [op |-> "read", bytes |-> <<0, 0>>]

\* C3: a successful initialization issues: the ChipId read, the twelve
\* 2-byte calibration reads at 0x88, 0x8A, ..., 0x9E in the order T1, T2, T3,
\* P1..P9, then one write of 0x3F to Control; each read is the 1-byte
\* address write followed at once by the data read; Control is written in
\* no call before the twelve calibration reads have succeeded.
C3_InitOrder ==
    /\ last.op = "build" /\ last.ok =>
         /\ Len(last.trace) >= InitLen
         /\ \A i \in 1..InitLen :
              /\ last.trace[i].ok
              /\ last.trace[i].op = InitShape(i).op
              /\ Len(last.trace[i].bytes) = Len(InitShape(i).bytes)
              /\ last.trace[i].op = "write" => last.trace[i].bytes = InitShape(i).bytes
         /\ calibration = dev.words
    /\ \A i \in WritesTo(last.trace, Reg.Control) :
         /\ i = InitLen
         /\ \A k \in 1..12 :
              /\ IsWriteTo(last.trace[2 * k + 2], 136 + 2 * (k - 1))
              /\ IsDataRead(last.trace[2 * k + 3])

C3_Witness ==
    /\ last.op = "build"
    /\ last.ok
    /\ phase = "ready"
    /\ Len(last.trace) = InitLen
    /\ calibration = Datasheet

\* C4: once build() has returned a session, no call changes a calibration
\* field or addresses a calibration register, whether it succeeds or fails.
C4_CalibrationImmutable ==
    [][phase = "ready" =>
          /\ calibration' = calibration
          /\ \A i \in 1..Len(last'.trace) :
                 last'.trace[i].op = "write" => ~IsCalReg(Addr(last'.trace[i]))]_vars

C4_Witness ==
    /\ phase = "ready"
    /\ last.op = "zero"
    /\ ~last.ok
    /\ prev_zero # <<>>
    /\ calibration = Datasheet

\* C5: with calibration P1 = 0 the pressure compensation ends in the
\* division-by-zero error and yields no pressure, whatever the samples and
\* the other calibration words; line 417 never divides by a zero var1.
C5_DivisionByZero ==
    /\ last.comp.ran /\ calibration.dig_p1 = 0 =>
         /\ ~last.ok
         /\ last.err = "Other"
         /\ last.val = NoVal
         /\ ~last.comp.divided
    /\ last.comp.divided => ~last.comp.divisorZero

C5_Witness ==
    /\ last.op = "pressure_kpa"
    /\ last.comp.ran
    /\ calibration.dig_p1 = 0
    /\ calibration.dig_p3 = 32767
    /\ last.err = "Other"
    /\ ~last.comp.divided

\* |f| < 1/1000
NearZero(f) ==
    /\ f.k = "fin"
    /\ \/ f.man = 0
       \/ /\ f.exp < 0
          /\ MCmp(MMulLimb(MFromNat(f.man), 1000), MShl(<<1>>, 0 - f.exp)) < 0

\* lo / den <= f < hi / den for a finite f > 0 with a negative exponent
FBetween(f, lo, hi, den) ==
    /\ f.k = "fin" /\ ~f.neg /\ f.man > 0 /\ f.exp < 0
    /\ MCmp(MMulLimb(MFromNat(f.man), den), MShl(MFromNat(lo), 0 - f.exp)) >= 0
    /\ MCmp(MMulLimb(MFromNat(f.man), den), MShl(MFromNat(hi), 0 - f.exp)) < 0

\* the latest call is altitude_m(), right after a zero() that succeeded, and
\* it read the same samples as that zero()
ZeroThenAltitude ==
    /\ last.op = "altitude_m"
    /\ last.ok
    /\ prev_zero # <<>>
    /\ Reads(last.trace) = prev_zero

\* the baseline a zero() stores for the pressure sample raw and fine value f
BaselineOf(cal, f, raw) ==
    F32Mul(F32Div(F32FromBig(PressureMath(cal, f, raw).p), F256000), F1000)

\* C6 as stated: zero() followed at once by altitude_m() on the same samples
\* yields an altitude within 1e-3 m of 0.
C6_ZeroThenAltitudeAlways == ZeroThenAltitude => NearZero(last.val)

\* C6 amended: the same, provided the compensated pressure is not exactly 0;
\* the pressure altitude_m() uses is then the baseline zero() stored.
C6_ZeroThenAltitude ==
    ZeroThenAltitude /\ ~FIsZero(last.arg) =>
        /\ NearZero(last.val)
        /\ last.arg = BaselineOf(calibration, fine, last.comp.raw)

C6_Witness ==
    /\ ZeroThenAltitude
    /\ ~FIsZero(last.arg)
    /\ last.arg = ground_pressure
    /\ NearZero(last.val)

\* C7: for the data sheet's calibration and samples, temperature
\* compensation gives fine = 128422 and 25.08 C, and pressure compensation
\* with that fine gives about 100.65 kPa.
C7_WorkedExample ==
    /\ (/\ calibration = Datasheet
        /\ last.op = "temperature_celsius"
        /\ last.ok
        /\ BE24(Reads(last.trace)[1]) = 519888 * 16) =>
           /\ fine = 128422
           /\ last.val = F32Div(F32FromInt(2508), F100)
           /\ FBetween(last.val, 250795, 250805, 10000)
    /\ (/\ calibration = Datasheet
        /\ last.op = "pressure_kpa"
        /\ last.ok
        /\ BE24(Reads(last.trace)[1]) = 519888 * 16
        /\ BE24(Reads(last.trace)[2]) = 415148 * 16) =>
           /\ fine = 128422
           /\ last.comp.fine = 128422
           /\ FBetween(last.val, 100645, 100655, 1000)

C7_Witness ==
    /\ calibration = Datasheet
    /\ last.op = "pressure_kpa"
    /\ last.ok
    /\ Reads(last.trace) = << <<126, 237, 0>>, <<101, 90, 192>> >>
    /\ fine = 128422
    /\ FBetween(last.val, 100645, 100655, 1000)

\* C8: a build() whose builder was given no ground pressure takes a pressure
\* reading and stores it as the baseline.
C8_BuildZeroesByDefault ==
    (last.op = "build" /\ last.ok /\ FIsZero(last.arg)) =>
        /\ last.comp.ran
        /\ ground_pressure = BaselineOf(calibration, fine, last.comp.raw)

\* C9: a bus transaction that fails is the last one of its call, and the
\* call returns that error.
C9_NoRetry ==
    /\ \A i \in 1..Len(last.trace) :
         ~last.trace[i].ok =>
             /\ i = Len(last.trace)
             /\ ~last.ok
             /\ last.err = "I2cError"
    /\ last.err = "I2cError" =>
         /\ last.trace # <<>>
         /\ ~last.trace[Len(last.trace)].ok

C9_Witness ==
    /\ last.op = "pressure_kpa"
    /\ last.err = "I2cError"
    /\ Len(last.trace) = 2
    /\ ~last.trace[2].ok
    /\ WritesTo(last.trace, Reg.PressureData) = {}

====
